---- MODULE Spec2Model ----
(***************************************************************************)
(* CASEvent: an ordered, deduplicated set of script hooks attached to one  *)
(* event, and the broadcast of one call to every hook under a stop mode.   *)
(*                                                                         *)
(* A broadcast (CASEvent::VCall) runs script code for every hook, and a    *)
(* hook may call back into its own event.  The broadcast is therefore cut  *)
(* at exactly the points where script code runs: VCallEnter, VCallIterate  *)
(* (up to the call of the next hook), HookReturn (from the hook's return   *)
(* to the end of that loop iteration) and VCallReturn (loop exit to the    *)
(* return statement).  Every other operation is one atomic action.         *)
(***************************************************************************)
EXTENDS Integers, Sequences, FiniteSets, TLC

\* Bounds of the model.
NumFunctions == 3
NumModules == 2
MaxDepth == 2
MaxRef == 1
MaxCallDepth == 2

NULL == 0

Functions == 1..NumFunctions
Modules == 1..NumModules

StopModes == {"NEVER", "MODULE_HANDLED", "ON_HANDLED"}

\* Every second function is a delegate (a method bound to a receiver).
GetDelegateFunction(f) == f % 2 = 0

\* The module a function originates from, resolved through the delegate's
\* bound method when the function is a delegate.  Functions 1,2 live in the
\* highest module, 3,4 in the one below, and so on down to module 1.
GetModuleFromScriptFunction(f) ==
    IF (f - 1) \div 2 < NumModules - 1 THEN NumModules - ((f - 1) \div 2) ELSE 1

\* asIScriptFunction::GetModule: a delegate has no module of its own.
GetModule(f) == IF GetDelegateFunction(f) THEN NULL ELSE GetModuleFromScriptFunction(f)

\* The module-order relation.
ModuleLess(a, b) == a < b

Range(s) == {s[i] : i \in 1..Len(s)}

\* m_Functions, m_iInCallCount and m_StopMode are the members of CASEvent.
\* refCount[f] is the number of AddRef calls less the number of Release calls
\* the event has made on f.  frames is the stack of running broadcasts, the
\* innermost last.  lastOp is the last call made on the event.
\* callStack is the stack of calls that as::VCall has running, the innermost
\* last; pool is the number of contexts requested from the engine and not
\* returned to it; lastCall is the last call as::VCall has returned from.
VARIABLES m_Functions, m_iInCallCount, m_StopMode, refCount, frames, lastOp,
          callStack, pool, lastCall

vars == <<m_Functions, m_iInCallCount, m_StopMode, refCount, frames, lastOp,
          callStack, pool, lastCall>>

\* The state of the event and the state of the call dispatcher (as::VCall).
eventVars == <<m_Functions, m_iInCallCount, m_StopMode, refCount, frames, lastOp>>
callVars == <<callStack, pool, lastCall>>

\* The last call made on the event: its name, argument and return value; for
\* a returned broadcast the log of what its hooks did, for AddFunction,
\* RemoveFunction and RemoveFunctionsOfModule a note when the function (an
\* entry of the module) was in the hook set at the call.
Op(op, arg, ret, log) == [op |-> op, arg |-> arg, ret |-> ret, log |-> log]

Bool(b) == IF b THEN "true" ELSE "false"

\* The reference counts the model follows.
InRefBounds(rc) == \A f \in Functions : rc[f] >= 0 - MaxRef /\ rc[f] <= MaxRef

\* pFunction->AddRef() / pFunction->Release()
AddRef(rc, f) == [rc EXCEPT ![f] = @ + 1]
Release(rc, f) == [rc EXCEPT ![f] = @ - 1]

\* A caller of the event: the host when no broadcast is running, or the
\* script code of the hook that the innermost broadcast is executing.
Top == frames[Len(frames)]
CanCall == IF frames = <<>> THEN TRUE ELSE Top.pc = "inhook"

----
\* A comparator that is true of equal modules (<= for <).
InsertStableCmpLessEq(f, g) == ~ModuleLess(GetModuleFromScriptFunction(g), GetModuleFromScriptFunction(f))

\* The comparator lambda of AddFunction, and std::stable_sort with it.
InsertStableCmp(f, g) == ModuleLess(GetModuleFromScriptFunction(f), GetModuleFromScriptFunction(g))

RECURSIVE InsertStable(_, _)
InsertStable(s, f) ==
    IF s = <<>> THEN <<f>>
    ELSE IF InsertStableCmp(f, s[Len(s)]) THEN Append(InsertStable(SubSeq(s, 1, Len(s) - 1), f), s[Len(s)])
    ELSE Append(s, f)

RECURSIVE StableSort(_)
StableSort(s) ==
    IF s = <<>> THEN <<>>
    ELSE InsertStable(StableSort(SubSeq(s, 1, Len(s) - 1)), s[Len(s)])

\* std::find( m_Functions.begin(), m_Functions.end(), pFunction ): the first
\* index holding pFunction, Len + 1 for end().
Find(s, f) ==
    IF \E i \in 1..Len(s) : s[i] = f
    THEN CHOOSE i \in 1..Len(s) : s[i] = f /\ \A j \in 1..(i - 1) : s[j] # f
    ELSE Len(s) + 1

\* vector::erase( it )
Erase(s, i) == SubSeq(s, 1, i - 1) \o SubSeq(s, i + 1, Len(s))

\* AddFunction without the test of m_iInCallCount.
AddFunctionNoGuard(fns, rc, count, f) ==
    IF f = NULL THEN [ret |-> FALSE, fns |-> fns, rc |-> rc]
    ELSE IF Find(fns, f) # Len(fns) + 1 THEN [ret |-> TRUE, fns |-> fns, rc |-> rc]
    ELSE [ret |-> TRUE, fns |-> StableSort(Append(fns, f)), rc |-> AddRef(rc, f)]

\* AddFunction without the std::find test.
AddFunctionNoFind(fns, rc, count, f) ==
    IF count # 0 THEN [ret |-> FALSE, fns |-> fns, rc |-> rc]
    ELSE IF f = NULL THEN [ret |-> FALSE, fns |-> fns, rc |-> rc]
    ELSE [ret |-> TRUE, fns |-> StableSort(Append(fns, f)), rc |-> AddRef(rc, f)]

\* AddFunction that takes a reference before the std::find test.
AddFunctionRefTwice(fns, rc, count, f) ==
    IF count # 0 THEN [ret |-> FALSE, fns |-> fns, rc |-> rc]
    ELSE IF f = NULL THEN [ret |-> FALSE, fns |-> fns, rc |-> rc]
    ELSE IF Find(fns, f) # Len(fns) + 1 THEN [ret |-> TRUE, fns |-> fns, rc |-> AddRef(rc, f)]
    ELSE [ret |-> TRUE, fns |-> StableSort(Append(fns, f)), rc |-> AddRef(rc, f)]

\* CASEvent::AddFunction: the new hook set, reference counts and return value.
AddFunctionResult(fns, rc, count, f) ==
    IF count # 0 THEN [ret |-> FALSE, fns |-> fns, rc |-> rc]
    ELSE IF f = NULL THEN [ret |-> FALSE, fns |-> fns, rc |-> rc]
    ELSE IF Find(fns, f) # Len(fns) + 1 THEN [ret |-> TRUE, fns |-> fns, rc |-> rc]
    ELSE [ret |-> TRUE, fns |-> StableSort(Append(fns, f)), rc |-> AddRef(rc, f)]

AddFunction(f) ==
    /\ CanCall
    /\ LET r == AddFunctionResult(m_Functions, refCount, m_iInCallCount, f) IN
        /\ InRefBounds(r.rc)
        /\ m_Functions' = r.fns
        /\ refCount' = r.rc
        /\ lastOp' = Op("AddFunction", f, Bool(r.ret),
                         IF f \in Range(m_Functions) THEN <<[fn |-> f, out |-> "present"]>> ELSE <<>>)
    /\ UNCHANGED <<m_iInCallCount, m_StopMode, frames, callVars>>

\* RemoveFunction that erases the entry without releasing it.
RemoveFunctionNoRelease(fns, rc, count, f) ==
    IF count # 0 THEN [fns |-> fns, rc |-> rc]
    ELSE IF f = NULL THEN [fns |-> fns, rc |-> rc]
    ELSE LET it == Find(fns, f) IN
        IF it = Len(fns) + 1 THEN [fns |-> fns, rc |-> rc]
        ELSE [fns |-> Erase(fns, it), rc |-> rc]

\* CASEvent::RemoveFunction
RemoveFunctionResult(fns, rc, count, f) ==
    IF count # 0 THEN [fns |-> fns, rc |-> rc]
    ELSE IF f = NULL THEN [fns |-> fns, rc |-> rc]
    ELSE LET it == Find(fns, f) IN
        IF it = Len(fns) + 1 THEN [fns |-> fns, rc |-> rc]
        ELSE [fns |-> Erase(fns, it), rc |-> Release(rc, fns[it])]

RemoveFunction(f) ==
    /\ CanCall
    /\ LET r == RemoveFunctionResult(m_Functions, refCount, m_iInCallCount, f) IN
        /\ InRefBounds(r.rc)
        /\ m_Functions' = r.fns
        /\ refCount' = r.rc
        /\ lastOp' = Op("RemoveFunction", f, "void",
                         IF f \in Range(m_Functions) THEN <<[fn |-> f, out |-> "present"]>> ELSE <<>>)
    /\ UNCHANGED <<m_iInCallCount, m_StopMode, frames, callVars>>

\* std::remove_if over the vector: every element that is kept is moved to the
\* front in order; the slots from the returned iterator on keep whatever
\* pointer they held (a moved-from raw pointer is a copy).  vec is the whole
\* vector after the call, it the returned iterator.
RECURSIVE RemoveIfLoop(_, _, _, _)
RemoveIfLoop(v, first, i, pModule) ==
    IF i > Len(v) THEN [vec |-> v, it |-> first]
    ELSE IF pModule # GetModuleFromScriptFunction(v[i])
         THEN RemoveIfLoop([v EXCEPT ![first] = v[i]], first + 1, i + 1, pModule)
         ELSE RemoveIfLoop(v, first, i + 1, pModule)

RemoveIf(v, pModule) ==
    LET hit == {i \in 1..Len(v) : pModule = GetModuleFromScriptFunction(v[i])} IN
    IF hit = {} THEN [vec |-> v, it |-> Len(v) + 1]
    ELSE LET first == CHOOSE i \in hit : \A j \in hit : i <= j
         IN RemoveIfLoop(v, first, first + 1, pModule)

\* Release() on every element of a range, in order.
RECURSIVE ReleaseAll(_, _)
ReleaseAll(rc, s) ==
    IF s = <<>> THEN rc ELSE ReleaseAll(Release(rc, Head(s)), Tail(s))

\* RemoveFunctionsOfModule with erase( it ) for erase( it, end() ).
RemoveFunctionsOfModuleEraseOne(fns, rc, count, pModule) ==
    IF count # 0 THEN [fns |-> fns, rc |-> rc]
    ELSE IF pModule = NULL THEN [fns |-> fns, rc |-> rc]
    ELSE LET r == RemoveIf(fns, pModule) IN
        [fns |-> Erase(r.vec, r.it),
         rc |-> ReleaseAll(rc, SubSeq(r.vec, r.it, Len(r.vec)))]

\* CASEvent::RemoveFunctionsOfModule
RemoveFunctionsOfModuleResult(fns, rc, count, pModule) ==
    IF count # 0 THEN [fns |-> fns, rc |-> rc]
    ELSE IF pModule = NULL THEN [fns |-> fns, rc |-> rc]
    ELSE LET r == RemoveIf(fns, pModule) IN
        [fns |-> SubSeq(r.vec, 1, r.it - 1),
         rc |-> ReleaseAll(rc, SubSeq(r.vec, r.it, Len(r.vec)))]

RemoveFunctionsOfModule(pModule) ==
    /\ CanCall
    /\ LET r == RemoveFunctionsOfModuleResult(m_Functions, refCount, m_iInCallCount, pModule) IN
        /\ InRefBounds(r.rc)
        /\ m_Functions' = r.fns
        /\ refCount' = r.rc
        /\ lastOp' = Op("RemoveFunctionsOfModule", pModule, "void",
                         IF \E g \in Range(m_Functions) : GetModuleFromScriptFunction(g) = pModule
                         THEN <<[fn |-> NULL, out |-> "present"]>> ELSE <<>>)
    /\ UNCHANGED <<m_iInCallCount, m_StopMode, frames, callVars>>

\* The loop body of RemoveAllFunctions: a delegate is released twice.
RECURSIVE ReleaseHooks(_, _)
ReleaseHooks(rc, s) ==
    IF s = <<>> THEN rc
    ELSE LET pFunc == Head(s)
             rc1 == IF GetDelegateFunction(pFunc) THEN Release(rc, pFunc) ELSE rc
         IN ReleaseHooks(Release(rc1, pFunc), Tail(s))

\* CASEvent::RemoveAllFunctions
RemoveAllFunctionsResult(fns, rc, count) ==
    IF count # 0 THEN [fns |-> fns, rc |-> rc]
    ELSE [fns |-> <<>>, rc |-> ReleaseHooks(rc, fns)]

RemoveAllFunctions ==
    /\ CanCall
    /\ LET r == RemoveAllFunctionsResult(m_Functions, refCount, m_iInCallCount) IN
        /\ InRefBounds(r.rc)
        /\ m_Functions' = r.fns
        /\ refCount' = r.rc
        /\ lastOp' = Op("RemoveAllFunctions", NULL, "void", <<>>)
    /\ UNCHANGED <<m_iInCallCount, m_StopMode, frames, callVars>>

----
\* CASEvent::Hook, Unhook and ValidateHookFunction

\* A function whose signature does not match the event's funcdef.
BadFunction == NumFunctions + 1

\* What GetTypeInfoById( iTypeId ) gives: nothing, a type that is not a
\* funcdef, a funcdef.
TypeInfos == {"unknown", "notfuncdef", "funcdef"}

\* The values a script can pass: iTypeId as its type and its
\* asTYPEID_OBJHANDLE bit, pValue null or not, and target, the function
\* that pValue is (no handle) or that the handle at pValue holds, if any.
\* One value stands for each way of passing a function without a handle.
HookValues ==
    {v \in [type : TypeInfos, handle : BOOLEAN, pValue : {NULL, 1},
            target : {NULL, BadFunction} \cup Functions] :
        /\ v.pValue = NULL => (v.target = NULL /\ ~v.handle /\ v.type = "funcdef")
        /\ (~v.handle /\ v.pValue # NULL) => v.target = 1
        /\ v.type # "funcdef" => ~v.handle}

\* pFuncDef->IsCompatibleWithTypeId( pFunction->GetTypeId() )
IsCompatibleWithTypeId(pFunction) == pFunction # BadFunction

Rejected(why) == [ok |-> FALSE, pOutFunction |-> NULL, why |-> why]

\* ValidateHookFunction without the test of the signature.
ValidateHookFunctionNoCompat(v) ==
    IF v.type = "unknown" THEN Rejected("unknown type")
    ELSE IF v.type # "funcdef" THEN Rejected("not a funcdef")
    ELSE IF v.pValue = NULL THEN Rejected("null object")
    ELSE IF v.target = NULL THEN Rejected("null handle")
    ELSE [ok |-> TRUE, pOutFunction |-> v.target, why |-> "none"]

\* ValidateHookFunction with the test of pObject before those of the type.
ValidateHookFunctionNullFirst(v) ==
    IF v.pValue = NULL THEN Rejected("null object")
    ELSE IF v.type = "unknown" THEN Rejected("unknown type")
    ELSE IF v.type # "funcdef" THEN Rejected("not a funcdef")
    ELSE IF v.target = NULL THEN Rejected("null handle")
    ELSE IF ~IsCompatibleWithTypeId(v.target) THEN Rejected("incompatible")
    ELSE [ok |-> TRUE, pOutFunction |-> v.target, why |-> "none"]

\* CASEvent::ValidateHookFunction( iTypeId, pObject, pszScope, pOutFunction )
ValidateHookFunction(v) ==
    IF v.type = "unknown" THEN Rejected("unknown type")
    ELSE IF v.type # "funcdef" THEN Rejected("not a funcdef")
    ELSE IF v.pValue = NULL THEN Rejected("null object")
    ELSE IF v.target = NULL THEN Rejected("null handle")
    ELSE IF ~IsCompatibleWithTypeId(v.target) THEN Rejected("incompatible")
    ELSE [ok |-> TRUE, pOutFunction |-> v.target, why |-> "none"]

\* CASEvent::Hook( pValue, iTypeId ); pFunction is its local.
HookResult(fns, rc, count, v) ==
    IF v.pValue = NULL THEN [ret |-> FALSE, fns |-> fns, rc |-> rc, pFunction |-> NULL]
    ELSE LET val == ValidateHookFunction(v) IN
        IF ~val.ok
        THEN [ret |-> FALSE, fns |-> fns, rc |-> rc, pFunction |-> val.pOutFunction]
        ELSE LET r == AddFunctionResult(fns, rc, count, val.pOutFunction)
             IN [ret |-> r.ret, fns |-> r.fns, rc |-> r.rc, pFunction |-> val.pOutFunction]

Hook(v) ==
    /\ CanCall
    /\ LET r == HookResult(m_Functions, refCount, m_iInCallCount, v) IN
        /\ InRefBounds(r.rc)
        /\ m_Functions' = r.fns
        /\ refCount' = r.rc
        /\ lastOp' = Op("Hook", r.pFunction, Bool(r.ret), <<v>>)
    /\ UNCHANGED <<m_iInCallCount, m_StopMode, frames, callVars>>

\* CASEvent::Unhook( pValue, iTypeId ); pFunction is its local.
UnhookResult(fns, rc, count, v) ==
    IF v.pValue = NULL THEN [fns |-> fns, rc |-> rc, pFunction |-> NULL]
    ELSE LET val == ValidateHookFunction(v) IN
        IF ~val.ok
        THEN [fns |-> fns, rc |-> rc, pFunction |-> val.pOutFunction]
        ELSE LET r == RemoveFunctionResult(fns, rc, count, val.pOutFunction)
             IN [fns |-> r.fns, rc |-> r.rc, pFunction |-> val.pOutFunction]

Unhook(v) ==
    /\ CanCall
    /\ LET r == UnhookResult(m_Functions, refCount, m_iInCallCount, v) IN
        /\ InRefBounds(r.rc)
        /\ m_Functions' = r.fns
        /\ refCount' = r.rc
        /\ lastOp' = Op("Unhook", r.pFunction, "void", <<v>>)
    /\ UNCHANGED <<m_iInCallCount, m_StopMode, frames, callVars>>

\* Every iTypeId and pObject that ValidateHookFunction can be given: a null
\* pObject has no target, and a pObject that is no handle is the function.
ValidateValues ==
    {v \in [type : TypeInfos, handle : BOOLEAN, pValue : {NULL, 1},
            target : {NULL, BadFunction} \cup Functions] :
        /\ v.pValue = NULL => v.target = NULL
        /\ (~v.handle /\ v.pValue # NULL) => v.target # NULL}

Scopes == {"HookFunction", "UnhookFunction"}

\* One call of ValidateHookFunction: lastOp takes the function it puts out,
\* and true or the test it returned false at.
Validate(v, pszScope) ==
    /\ LET val == ValidateHookFunction(v) IN
          lastOp' = Op("ValidateHookFunction", val.pOutFunction,
                       IF val.ok THEN "true" ELSE val.why,
                       <<[v |-> v, pszScope |-> pszScope]>>)
    /\ UNCHANGED <<m_Functions, m_iInCallCount, m_StopMode, refCount, frames, callVars>>

----
\* CASEvent::VCall( pContext, flags, list )

\* A broadcast whose loop starts at the second hook.
NewFrameSkipFirst(fns, count) ==
    [pc |-> "loop", idx |-> 2, bSuccess |-> TRUE, returnCode |-> "CONTINUE",
     pLastModule |-> NULL, log |-> <<>>, entryFunctions |-> fns, entryCount |-> count]

\* The locals of one running broadcast.  entryFunctions and entryCount record
\* the hook set and the in-call counter at the call, log what each invoked
\* hook did: "callfail" (the call failed), "readfail" (GetReturnValue failed),
\* "noread" (the return value was not read), or the value read, and the
\* context it was called on.
NewFrame(fns, count) ==
    [pc |-> "loop", idx |-> 1, bSuccess |-> TRUE, returnCode |-> "CONTINUE",
     pLastModule |-> NULL, log |-> <<>>, entryFunctions |-> fns, entryCount |-> count]

\* The context a broadcast runs its hooks on (CASContext ctx( *pContext )),
\* and whether VCall( flags, list ) requested it from the engine.
WithContext(fr, pContext, requested) ==
    fr @@ [pContext |-> pContext, requested |-> requested]

\* The caller's context, and the context the engine gives out when n are
\* out of its pool.
CallerContext == 1
PoolContext(n) == CallerContext + n

\* The stack of broadcasts with the innermost one updated / returned.
SetTop(fr) == [frames EXCEPT ![Len(frames)] = fr]
Pop == SubSeq(frames, 1, Len(frames) - 1)

\* An entry that leaves the counter as it is.
EnterCountKept(count) == count

\* ++m_iInCallCount
EnterCount(count) == count + 1

\* A return that leaves the counter as it is.
ExitCountKept(count) == count

\* --m_iInCallCount
ExitCount(count) == count - 1

\* VCall that counts the call before it tests the context.
VCallEnterCountsNull(pContext) ==
    /\ CanCall
    /\ IF pContext = NULL
       THEN /\ lastOp' = Op("VCall", NULL, "FAILED", <<>>)
            /\ m_iInCallCount' = EnterCount(m_iInCallCount)
            /\ UNCHANGED <<m_Functions, m_StopMode, refCount, frames, callVars>>
       ELSE /\ Len(frames) < MaxDepth
            /\ m_iInCallCount' = EnterCount(m_iInCallCount)
            /\ frames' = Append(frames, WithContext(NewFrame(m_Functions, m_iInCallCount),
                                                    pContext, FALSE))
            /\ lastOp' = Op("VCallEnter", NULL, "void", <<>>)
            /\ UNCHANGED <<m_Functions, m_StopMode, refCount, callVars>>

\* The call of VCall up to the loop.  With a null context it returns FAILED
\* at once (lastOp.arg is NULL then; for a broadcast that ran its loop it is
\* the nesting depth of that broadcast).
VCallEnter(pContext) ==
    /\ CanCall
    /\ IF pContext = NULL
       THEN /\ lastOp' = Op("VCall", NULL, "FAILED", <<>>)
            /\ UNCHANGED <<m_Functions, m_iInCallCount, m_StopMode, refCount, frames, callVars>>
       ELSE /\ Len(frames) < MaxDepth
            /\ m_iInCallCount' = EnterCount(m_iInCallCount)
            /\ frames' = Append(frames, WithContext(NewFrame(m_Functions, m_iInCallCount),
                                                    pContext, FALSE))
            /\ lastOp' = Op("VCallEnter", NULL, "void", <<>>)
            /\ UNCHANGED <<m_Functions, m_StopMode, refCount, callVars>>

\* pEngine->RequestContext() / pEngine->ReturnContext( pContext ) on the
\* number of contexts out of the engine's pool.
RequestContext(n) == n + 1
ReturnContextNever(n, requested) == n
ReturnContext(n, requested) == IF requested THEN n - 1 ELSE n

\* CASEvent::VCall( flags, list ) up to the first hook.
VCallNoContext ==
    /\ CanCall
    /\ IF m_Functions = <<>>
       THEN /\ lastOp' = Op("VCallNoContext", NULL, "NONE_HANDLED", <<>>)
            /\ UNCHANGED <<m_Functions, m_iInCallCount, m_StopMode, refCount, frames, callVars>>
       ELSE /\ Len(frames) < MaxDepth
            /\ pool' = RequestContext(pool)
            /\ m_iInCallCount' = EnterCount(m_iInCallCount)
            /\ frames' = Append(frames, WithContext(NewFrame(m_Functions, m_iInCallCount),
                                                    PoolContext(pool'), TRUE))
            /\ lastOp' = Op("VCallEnter", NULL, "void", <<>>)
            /\ UNCHANGED <<m_Functions, m_StopMode, refCount, callStack, lastCall>>

\* The test without the stop mode.
ModuleBreakAnyMode(stopMode, returnCode, pLastModule, pFunc) ==
    /\ returnCode = "HANDLED"
    /\ pLastModule # NULL
    /\ pLastModule # GetModule(pFunc)

\* The MODULE_HANDLED test at the top of the loop body.
ModuleBreak(stopMode, returnCode, pLastModule, pFunc) ==
    /\ stopMode = "MODULE_HANDLED"
    /\ returnCode = "HANDLED"
    /\ pLastModule # NULL
    /\ pLastModule # GetModule(pFunc)

\* The range-for has reached end(), or the MODULE_HANDLED test breaks.
LoopEnds(fr) ==
    IF fr.idx > Len(m_Functions) THEN TRUE
    ELSE ModuleBreak(m_StopMode, fr.returnCode, fr.pLastModule, m_Functions[fr.idx])

\* From the top of one loop iteration to the call of the hook.
VCallIterate ==
    /\ frames # <<>>
    /\ Top.pc = "loop"
    /\ ~LoopEnds(Top)
    /\ frames' = SetTop([Top EXCEPT !.pc = "inhook",
                                    !.pLastModule = GetModule(m_Functions[Top.idx])])
    /\ lastOp' = Op("Invoke", m_Functions[Top.idx], "void", <<>>)
    /\ UNCHANGED <<m_Functions, m_iInCallCount, m_StopMode, refCount, callVars>>

\* CASCallable::GetReturnValue( &returnCode ): writes the slot on success only.
GetReturnValue(readOk, value, returnCode) == IF readOk THEN value ELSE returnCode

\* The loop body reading the return value of every successful call.
AfterCallReadAlways(stopMode, bSuccess, returnCode, successCall, readOk, value) ==
    LET b1 == successCall /\ bSuccess
        read == successCall
        b2 == IF read THEN readOk /\ b1 ELSE b1
        rc2 == IF read THEN GetReturnValue(readOk, value, returnCode) ELSE returnCode
    IN [bSuccess |-> b2, returnCode |-> rc2,
        break |-> (rc2 = "HANDLED" /\ stopMode = "ON_HANDLED")]

\* The loop body without the ON_HANDLED break.
AfterCallNoBreak(stopMode, bSuccess, returnCode, successCall, readOk, value) ==
    LET b1 == successCall /\ bSuccess
        read == successCall /\ returnCode = "CONTINUE"
        b2 == IF read THEN readOk /\ b1 ELSE b1
        rc2 == IF read THEN GetReturnValue(readOk, value, returnCode) ELSE returnCode
    IN [bSuccess |-> b2, returnCode |-> rc2, break |-> FALSE]

\* The loop body with a break on a failed call.
AfterCallAbortOnFail(stopMode, bSuccess, returnCode, successCall, readOk, value) ==
    LET b1 == successCall /\ bSuccess
        read == successCall /\ returnCode = "CONTINUE"
        b2 == IF read THEN readOk /\ b1 ELSE b1
        rc2 == IF read THEN GetReturnValue(readOk, value, returnCode) ELSE returnCode
    IN [bSuccess |-> b2, returnCode |-> rc2,
        break |-> (~successCall \/ (rc2 = "HANDLED" /\ stopMode = "ON_HANDLED"))]

\* The loop body after func.VCall returned successCall.
AfterCall(stopMode, bSuccess, returnCode, successCall, readOk, value) ==
    LET b1 == successCall /\ bSuccess
        read == successCall /\ returnCode = "CONTINUE"
        b2 == IF read THEN readOk /\ b1 ELSE b1
        rc2 == IF read THEN GetReturnValue(readOk, value, returnCode) ELSE returnCode
    IN [bSuccess |-> b2, returnCode |-> rc2,
        break |-> (rc2 = "HANDLED" /\ stopMode = "ON_HANDLED")]

Outcome(returnCode, successCall, readOk, value) ==
    IF ~successCall THEN "callfail"
    ELSE IF returnCode # "CONTINUE" THEN "noread"
    ELSE IF ~readOk THEN "readfail"
    ELSE value

\* A loop that stays at a hook whose call failed.
AdvanceOnSuccess(idx, successCall) == IF successCall THEN idx + 1 ELSE idx

\* for( auto pFunc : m_Functions ): the loop goes on to the next hook.
Advance(idx, successCall) == idx + 1

\* The hook returns: the rest of the loop iteration.
HookReturn(successCall, readOk, value) ==
    /\ frames # <<>>
    /\ Top.pc = "inhook"
    /\ LET r == AfterCall(m_StopMode, Top.bSuccess, Top.returnCode, successCall, readOk, value)
           pFunc == IF Top.idx <= Len(m_Functions) THEN m_Functions[Top.idx] ELSE NULL
           out == Outcome(Top.returnCode, successCall, readOk, value)
       IN /\ frames' = SetTop([Top EXCEPT !.pc = IF r.break THEN "break" ELSE "loop",
                                          !.idx = Advance(@, successCall),
                                          !.bSuccess = r.bSuccess,
                                          !.returnCode = r.returnCode,
                                          !.log = Append(@, [fn |-> pFunc, out |-> out,
                                                             ctx |-> Top.pContext])])
          /\ lastOp' = Op("HookReturn", pFunc, out, <<>>)
    /\ UNCHANGED <<m_Functions, m_iInCallCount, m_StopMode, refCount, callVars>>

\* The return statement with HANDLED tested before the failure.
VCallResultHandledFirst(bSuccess, returnCode) ==
    IF returnCode = "HANDLED" THEN "HANDLED"
    ELSE IF ~bSuccess THEN "FAILED" ELSE "NONE_HANDLED"

\* The return statement of VCall.
VCallResult(bSuccess, returnCode) ==
    IF ~bSuccess THEN "FAILED"
    ELSE IF returnCode = "HANDLED" THEN "HANDLED" ELSE "NONE_HANDLED"

\* From the end of the loop to the return.
VCallReturn ==
    /\ frames # <<>>
    /\ IF Top.pc = "break" THEN TRUE ELSE Top.pc = "loop" /\ LoopEnds(Top)
    /\ m_iInCallCount' = ExitCount(m_iInCallCount)
    /\ frames' = Pop
    /\ lastOp' = Op("VCall", Len(frames), VCallResult(Top.bSuccess, Top.returnCode), Top.log)
    /\ pool' = ReturnContext(pool, Top.requested)
    /\ UNCHANGED <<m_Functions, m_StopMode, refCount, callStack, lastCall>>

----
\* as::VCall( functor, pContext, flags, pFunction, args ) and the functors

Functors == {"CASFunctionFunctor", "CASMethodFunctor"}
ArgumentLists == {"va_list", "CASArguments"}

\* What a returned call did: its arguments, its result, the contexts it
\* requested from and returned to the engine, whether it constructed a
\* callable and executed the function, and where it left.
CallRecord(in, ret, acquired, released, constructed, executed, exit) ==
    [functor |-> in.functor, pThis |-> in.pThis, pContext |-> in.pContext,
     pFunction |-> in.pFunction, args |-> in.args, ret |-> ret,
     acquired |-> acquired, released |-> released,
     constructed |-> constructed, executed |-> executed, exit |-> exit]

NoInput ==
    [functor |-> "CASFunctionFunctor", pThis |-> NULL, pContext |-> NULL,
     pFunction |-> NULL, args |-> "va_list"]

NoCall == CallRecord(NoInput, FALSE, 0, 0, FALSE, FALSE, "none")

\* The test of the function without effect.
NullFunctionIgnored(pFunction) == FALSE

\* if( !pFunction ) return false;
NullFunction(pFunction) == pFunction = NULL

\* An owning context for every call.
ContextForAlwaysOwning(pContext) == "CASOwningContext"

\* The context handle the call runs with: the caller's, wrapped, or one that
\* is requested from the engine.
ContextFor(pContext) ==
    IF pContext # NULL THEN "CASContext" ELSE "CASOwningContext"

\* RequestContext calls of the handle's constructor, ReturnContext calls of
\* its destructor.
Acquires(ctx) == IF ctx = "CASOwningContext" THEN 1 ELSE 0
Releases(ctx) == IF ctx = "CASOwningContext" THEN 1 ELSE 0

\* CASFunction::IsValid, CASMethod::IsValid
IsValid(functor, pThis, pFunction) ==
    /\ pFunction # NULL
    /\ functor = "CASMethodFunctor" => pThis # NULL

\* A functor that goes on with a callable that is not valid.
FunctorReturnsNever(functor, pThis, pFunction) == FALSE

\* if( !func.IsValid() ) return false;  if( !method.IsValid() ) return false;
FunctorReturns(functor, pThis, pFunction) == ~IsValid(functor, pThis, pFunction)

TopCall == callStack[Len(callStack)]

\* A call can be made by the host, or by the script code a call executes.
CanDispatch == IF callStack = <<>> THEN TRUE ELSE TopCall.pc = "execute"

\* The call up to the callable's IsValid test.
asVCall(functor, pThis, pContext, pFunction, args) ==
    LET in == [functor |-> functor, pThis |-> IF functor = "CASMethodFunctor" THEN pThis ELSE NULL,
               pContext |-> pContext, pFunction |-> pFunction, args |-> args]
        ctx == ContextFor(pContext)
    IN
    /\ CanDispatch
    /\ IF NullFunction(pFunction)
       THEN /\ lastCall' = CallRecord(in, FALSE, 0, 0, FALSE, FALSE, "null function")
            /\ UNCHANGED <<callStack, pool>>
       ELSE IF FunctorReturns(in.functor, in.pThis, in.pFunction)
       THEN /\ lastCall' = CallRecord(in, FALSE, Acquires(ctx), Releases(ctx),
                                      TRUE, FALSE, "invalid")
            /\ pool' = pool + Acquires(ctx) - Releases(ctx)
            /\ UNCHANGED callStack
       ELSE /\ Len(callStack) < MaxCallDepth
            /\ callStack' = Append(callStack,
                                   [in |-> in, ctx |-> ctx, acquired |-> Acquires(ctx),
                                    pc |-> "arguments"])
            /\ pool' = pool + Acquires(ctx)
            /\ UNCHANGED lastCall
    /\ UNCHANGED eventVars

\* The call has left CallFunction: the callable and then the context handle
\* are destroyed.
CallReturns(ret, executed, exit) ==
    /\ lastCall' = CallRecord(TopCall.in, ret, TopCall.acquired, Releases(TopCall.ctx),
                              TRUE, executed, exit)
    /\ pool' = pool - Releases(TopCall.ctx)
    /\ callStack' = SubSeq(callStack, 1, Len(callStack) - 1)

\* CallFunction up to the execution: the arguments are set from the list; a
\* failure ends the call.
SetArguments(ok) ==
    /\ callStack # <<>>
    /\ TopCall.pc = "arguments"
    /\ IF ok
       THEN /\ callStack' = [callStack EXCEPT ![Len(callStack)].pc = "execute"]
            /\ UNCHANGED <<pool, lastCall>>
       ELSE CallReturns(FALSE, FALSE, "arguments")
    /\ UNCHANGED eventVars

\* CallFunction from the end of the execution: the call's result is whether
\* the function finished.
Execute(finished) ==
    /\ callStack # <<>>
    /\ TopCall.pc = "execute"
    /\ CallReturns(finished, TRUE, IF finished THEN "success" ELSE "execute")
    /\ UNCHANGED eventVars

----
Init ==
    /\ m_Functions = <<>>
    /\ m_iInCallCount = 0
    /\ m_StopMode \in StopModes
    /\ refCount = [f \in Functions |-> 0]
    /\ frames = <<>>
    /\ lastOp = Op("ctor", NULL, "void", <<>>)
    /\ callStack = <<>>
    /\ pool = 0
    /\ lastCall = NoCall

Next ==
    \/ \E f \in Functions \cup {NULL} : AddFunction(f)
    \/ \E f \in Functions \cup {NULL} : RemoveFunction(f)
    \/ \E m \in Modules \cup {NULL} : RemoveFunctionsOfModule(m)
    \/ RemoveAllFunctions
    \/ \E c \in {NULL, 1} : VCallEnter(c)
    \/ VCallIterate
    \/ \E successCall \in BOOLEAN, readOk \in BOOLEAN, value \in {"CONTINUE", "HANDLED"} :
          HookReturn(successCall, readOk, value)
    \/ VCallReturn

Spec == Init /\ [][Next]_vars

\* The event as scripts reach it as well: Hook and Unhook with a value of
\* any type next to the calls of the host.
NextHook ==
    \/ Next
    \/ \E v \in HookValues : Hook(v)
    \/ \E v \in HookValues : Unhook(v)

SpecHook == Init /\ [][NextHook]_vars

\* ValidateHookFunction on every value.
NextValidate == \E v \in ValidateValues, pszScope \in Scopes : Validate(v, pszScope)

SpecValidate == Init /\ [][NextValidate]_vars

\* Broadcasts without a context of the caller next to those with one, over
\* hook sets that AddFunction builds.
NextRequest ==
    \/ \E f \in Functions \cup {NULL} : AddFunction(f)
    \/ \E c \in {NULL, CallerContext} : VCallEnter(c)
    \/ VCallNoContext
    \/ VCallIterate
    \/ \E successCall \in BOOLEAN, readOk \in BOOLEAN, value \in {"CONTINUE", "HANDLED"} :
          HookReturn(successCall, readOk, value)
    \/ VCallReturn

SpecRequest == Init /\ [][NextRequest]_vars

\* The hook that a broadcast at depth d is in returns.
HookReturnsAt(d) ==
    /\ Len(frames) = d
    /\ \E successCall \in BOOLEAN, readOk \in BOOLEAN, value \in {"CONTINUE", "HANDLED"} :
          HookReturn(successCall, readOk, value)

\* The loop of VCall runs on while it is not in a hook, and every call of a
\* hook returns, at each depth of nesting.
Fairness ==
    /\ WF_vars(VCallIterate)
    /\ WF_vars(VCallReturn)
    /\ \A d \in 1..MaxDepth : SF_vars(HookReturnsAt(d))

SpecLive == Init /\ [][NextRequest]_vars /\ Fairness

\* Calls through the dispatcher as::VCall, from the host and from the
\* script code that such a call runs.
NextCall ==
    \/ \E functor \in Functors, pThis \in {NULL, 1}, pContext \in {NULL, 1},
          pFunction \in {NULL, 1}, args \in ArgumentLists :
          asVCall(functor, pThis, pContext, pFunction, args)
    \/ \E ok \in BOOLEAN : SetArguments(ok)
    \/ \E finished \in BOOLEAN : Execute(finished)

SpecCall == Init /\ [][NextCall]_vars

----
\* Vocabulary of the properties.

MutatingOps == {"AddFunction", "RemoveFunction", "RemoveFunctionsOfModule", "RemoveAllFunctions"}

\* The step is the return of the innermost broadcast / the entry of a new one.
Returning == Len(frames') < Len(frames)
Entering == Len(frames') > Len(frames)

\* lastOp is the return of a broadcast that ran its loop.
Returned == lastOp.op = "VCall" /\ lastOp.arg # NULL

\* The hooks a log names, in order.
Invoked(log) == [i \in 1..Len(log) |-> log[i].fn]

Failures(log) == {i \in 1..Len(log) : log[i].out \in {"callfail", "readfail"}}
Handlers(log) == {i \in 1..Len(log) : log[i].out = "HANDLED"}

----
\* C1  While the in-call counter is non-zero, AddFunction, RemoveFunction,
\* RemoveFunctionsOfModule and RemoveAllFunctions change neither the hook set
\* nor any reference count, and AddFunction returns false (also for a function
\* that is present); when a broadcast returns, the hook set is the one it
\* started with.
C1_ReentrancyGuard ==
    [][ /\ (m_iInCallCount # 0 /\ lastOp'.op \in MutatingOps) =>
            /\ m_Functions' = m_Functions
            /\ refCount' = refCount
            /\ (lastOp'.op = "AddFunction" => lastOp'.ret = "false")
        /\ Returning => m_Functions' = Top.entryFunctions ]_vars

\* A hook has asked to add a function that is already hooked and was refused.
C1_Witness ==
    /\ m_iInCallCount # 0
    /\ lastOp.op = "AddFunction"
    /\ lastOp.arg \in Range(m_Functions)
    /\ lastOp.ret = "false"

\* C2  Under NEVER a broadcast with a non-null context has, when it returns,
\* invoked every hook of the hook set exactly once, in hook-set order, whatever
\* the hooks returned and whether or not their calls succeeded.
C2_NeverInvokesAll ==
    (m_StopMode = "NEVER" /\ Returned) => Invoked(lastOp.log) = m_Functions

\* Three hooks, the second read as HANDLED, the third invoked all the same.
C2_Witness ==
    /\ m_StopMode = "NEVER"
    /\ Returned
    /\ Len(lastOp.log) = 3
    /\ lastOp.log[2].out = "HANDLED"
    /\ Invoked(lastOp.log) = m_Functions

\* C3  Under ON_HANDLED the first hook whose return value is read as HANDLED
\* is the last hook invoked: in every running broadcast a HANDLED entry is the
\* last entry of the log and no hook is running after it, and the hooks
\* invoked so far are the hooks positioned before it, in order.
C3_OnHandledStops ==
    m_StopMode = "ON_HANDLED" =>
        \A k \in 1..Len(frames) :
            LET fr == frames[k] IN
            /\ Invoked(fr.log) = SubSeq(fr.entryFunctions, 1, Len(fr.log))
            /\ \A i \in Handlers(fr.log) : i = Len(fr.log) /\ fr.pc = "break"

\* Three hooks, the second read as HANDLED, the broadcast returned after two.
C3_Witness ==
    /\ m_StopMode = "ON_HANDLED"
    /\ Returned
    /\ Len(m_Functions) = 3
    /\ Len(lastOp.log) = 2
    /\ lastOp.log[2].out = "HANDLED"
    /\ Invoked(lastOp.log) = SubSeq(m_Functions, 1, 2)
\* C4  Under MODULE_HANDLED, once a hook has been read as HANDLED, every later
\* hook of the same originating module (the module the hook set is sorted by)
\* is invoked and no hook of another module is.
C4_ModuleHandled ==
    (m_StopMode = "MODULE_HANDLED" /\ Returned /\ Handlers(lastOp.log) # {}) =>
        LET log == lastOp.log
            h == CHOOSE i \in Handlers(log) : \A j \in Handlers(log) : i <= j
            owner == GetModuleFromScriptFunction(m_Functions[h])
        IN /\ Invoked(log) = SubSeq(m_Functions, 1, Len(log))
           /\ \A j \in (h + 1)..Len(m_Functions) :
                IF GetModuleFromScriptFunction(m_Functions[j]) = owner
                THEN j <= Len(log) ELSE j > Len(log)

\* C5  A returned broadcast reports FAILED when a call or a read of a return
\* value failed, otherwise HANDLED when a return value was read as HANDLED,
\* otherwise NONE_HANDLED.
C5_BroadcastResult ==
    Returned =>
        lastOp.ret = IF Failures(lastOp.log) # {} THEN "FAILED"
                     ELSE IF Handlers(lastOp.log) # {} THEN "HANDLED"
                     ELSE "NONE_HANDLED"

\* A broadcast with a failed hook and a HANDLED hook returned FAILED.
C5_Witness ==
    /\ Returned
    /\ Failures(lastOp.log) # {}
    /\ Handlers(lastOp.log) # {}
    /\ lastOp.ret = "FAILED"

\* C6  A failed call does not stop the broadcast: a broadcast that returns
\* before the end of the hook set has read HANDLED under a stop mode other than
\* NEVER; the return value of every hook whose call succeeds is read until
\* HANDLED has been read, also after a failure; and the result of a broadcast
\* with a failed call is FAILED.
C6_FailureAggregation ==
    Returned =>
        LET log == lastOp.log IN
        /\ Len(log) < Len(m_Functions) => (m_StopMode # "NEVER" /\ Handlers(log) # {})
        /\ \A j \in 1..Len(log) :
              log[j].out = "noread" => \E i \in Handlers(log) : i < j
        /\ Failures(log) # {} => lastOp.ret = "FAILED"

\* Hook 2 of 3 failed, hook 3 ran and was read as HANDLED, the result is FAILED.
C6_Witness ==
    /\ Returned
    /\ Len(lastOp.log) = 3
    /\ lastOp.log[2].out = "callfail"
    /\ lastOp.log[3].out = "HANDLED"
    /\ lastOp.ret = "FAILED"
\* The position of x in s.
Index(s, x) == CHOOSE i \in 1..Len(s) : s[i] = x

\* s is ordered by the module-order relation of its entries' modules.
SortedByModule(s) ==
    \A i, j \in 1..Len(s) :
        i < j => ~ModuleLess(GetModuleFromScriptFunction(s[j]), GetModuleFromScriptFunction(s[i]))

\* C7  Every operation leaves the hook set sorted by the module order, keeps
\* the entries that stay in their relative order, and places a new entry after
\* every entry of the same module: entries of one module stand in the order in
\* which they were added.
C7_Ordering ==
    [][ /\ SortedByModule(m_Functions')
        /\ \A a, b \in Range(m_Functions) \cap Range(m_Functions') :
              Index(m_Functions, a) < Index(m_Functions, b)
                  => Index(m_Functions', a) < Index(m_Functions', b)
        /\ \A f \in Range(m_Functions') \ Range(m_Functions) :
              \A g \in Range(m_Functions) \cap Range(m_Functions') :
                  GetModuleFromScriptFunction(g) = GetModuleFromScriptFunction(f)
                      => Index(m_Functions', g) < Index(m_Functions', f) ]_vars

\* B#1 (function 2), then A (function 3), then B#2 (function 1) were added:
\* the hook set is [A, B#1, B#2].
C7_Witness ==
    /\ m_Functions = <<3, 2, 1>>
    /\ lastOp.op = "AddFunction"
    /\ lastOp.arg = 1
    /\ lastOp.log = <<>>

\* C8  The hook set never holds the same function reference twice.
C8_Dedup ==
    \A i, j \in 1..Len(m_Functions) : i # j => m_Functions[i] # m_Functions[j]

\* A function that is in a hook set of several entries was added again.
C8_Witness ==
    /\ lastOp.op = "AddFunction"
    /\ lastOp.ret = "true"
    /\ lastOp.log # <<>>
    /\ Len(m_Functions) > 1
    /\ m_iInCallCount = 0

\* C9  With the in-call counter at zero, AddFunction of a function that is not
\* in the hook set adds one entry for it and one reference to it and nothing
\* else; AddFunction of a function that is in the hook set returns true and
\* changes neither the hook set nor any reference count.
C9_AddIdempotent ==
    [][ (lastOp'.op = "AddFunction" /\ m_iInCallCount = 0 /\ lastOp'.arg # NULL) =>
            LET f == lastOp'.arg IN
            /\ lastOp'.ret = "true"
            /\ Cardinality({i \in 1..Len(m_Functions') : m_Functions'[i] = f}) = 1
            /\ IF f \in Range(m_Functions)
               THEN m_Functions' = m_Functions /\ refCount' = refCount
               ELSE refCount' = [refCount EXCEPT ![f] = @ + 1] ]_vars

\* The second AddFunction of a function: it is in the hook set once, with the
\* one reference of its first AddFunction.
C9_Witness ==
    /\ lastOp.op = "AddFunction"
    /\ lastOp.ret = "true"
    /\ lastOp.log # <<>>
    /\ m_iInCallCount = 0
    /\ m_Functions = <<lastOp.arg>>
    /\ refCount[lastOp.arg] = 1

\* C10  The in-call counter is never negative, the entry of a broadcast adds
\* one to it, and when a broadcast returns, by whichever way its loop ended,
\* the counter has the value it had when that broadcast was called.
C10_CounterDiscipline ==
    [][ /\ m_iInCallCount' >= 0
        /\ Entering => m_iInCallCount' = m_iInCallCount + 1
        /\ Returning => m_iInCallCount' = Top.entryCount ]_vars

\* A broadcast started by a hook returned at a MODULE_HANDLED stop after a
\* failed call, and the counter is back at the outer broadcast's 1.
C10_Witness ==
    /\ m_StopMode = "MODULE_HANDLED"
    /\ Returned
    /\ lastOp.arg = 2
    /\ Len(lastOp.log) < Len(m_Functions)
    /\ Failures(lastOp.log) # {}
    /\ m_iInCallCount = 1
\* The hook set holds f / the entries of s that pass the test.
Hooked(f) == f \in Range(m_Functions)

\* C11  The event holds one reference on every function of the hook set and
\* none on any other function.
C11_RefBalance ==
    \A f \in Functions : refCount[f] = IF Hooked(f) THEN 1 ELSE 0

\* C14  RemoveFunctionsOfModule with a module and the counter at zero leaves
\* the hook set with the entries of that module removed and all others kept,
\* once each and in their order.
C14_RemoveOfModuleSet ==
    [][ (lastOp'.op = "RemoveFunctionsOfModule" /\ m_iInCallCount = 0 /\ lastOp'.arg # NULL) =>
            m_Functions' = SelectSeq(m_Functions,
                                     LAMBDA g : GetModuleFromScriptFunction(g) # lastOp'.arg) ]_vars

\* Module 1 was removed from a hook set that held its entry before the two
\* entries of module 2, which stay in their order.
C14_Witness ==
    /\ lastOp.op = "RemoveFunctionsOfModule"
    /\ lastOp.arg = 1
    /\ lastOp.log # <<>>
    /\ m_iInCallCount = 0
    /\ m_Functions = <<2, 1>>

\* C15  RemoveFunctionsOfModule releases one reference of every entry it
\* removes and no reference of an entry it keeps.
C15_RemoveOfModuleRefs ==
    [][ (lastOp'.op = "RemoveFunctionsOfModule" /\ m_iInCallCount = 0 /\ lastOp'.arg # NULL) =>
            refCount' = [f \in Functions |->
                            IF Hooked(f) /\ GetModuleFromScriptFunction(f) = lastOp'.arg
                            THEN refCount[f] - 1 ELSE refCount[f]] ]_vars

\* C16  RemoveAllFunctions with the counter at zero empties the hook set and
\* releases the references the hook set holds: the one that AddFunction took
\* for each entry.
C16_RemoveAllRefs ==
    [][ (lastOp'.op = "RemoveAllFunctions" /\ m_iInCallCount = 0) =>
            /\ m_Functions' = <<>>
            /\ refCount' = [f \in Functions |->
                               IF Hooked(f) THEN refCount[f] - 1 ELSE refCount[f]] ]_vars

\* AddFunction( f ) and then RemoveFunction( f ) on the hook set, f not in it.
AddThenRemove(f) ==
    LET a == AddFunctionResult(m_Functions, refCount, 0, f)
    IN RemoveFunctionResult(a.fns, a.rc, 0, f)

\* C17  With the counter at zero RemoveFunction of a function that is not in
\* the hook set (or of null) changes nothing; of a function that is in it,
\* it erases that entry, releases one reference on it and leaves the other
\* entries in their order.  AddFunction and then RemoveFunction of a function
\* that is not in the hook set give back the hook set and reference counts.
C17_RemoveFunction ==
    /\ [](m_iInCallCount = 0 =>
            \A f \in Functions \ Range(m_Functions) :
                /\ AddThenRemove(f).fns = m_Functions
                /\ AddThenRemove(f).rc = refCount)
    /\ [][ (lastOp'.op = "RemoveFunction" /\ m_iInCallCount = 0) =>
              LET f == lastOp'.arg IN
              IF ~Hooked(f)
              THEN m_Functions' = m_Functions /\ refCount' = refCount
              ELSE /\ m_Functions' = SelectSeq(m_Functions, LAMBDA g : g # f)
                   /\ Len(m_Functions') = Len(m_Functions) - 1
                   /\ refCount' = [refCount EXCEPT ![f] = @ - 1] ]_vars

\* The middle entry of three was removed: the other two stay, it has no
\* reference left.
C17_Witness ==
    /\ lastOp.op = "RemoveFunction"
    /\ lastOp.arg = 2
    /\ lastOp.log # <<>>
    /\ m_iInCallCount = 0
    /\ m_Functions = <<3, 1>>
    /\ refCount = [f \in Functions |-> IF f = 2 THEN 0 ELSE 1]
\* What the hooks of a log did, in order.
Outs(log) == [i \in 1..Len(log) |-> log[i].out]

\* C18  In every stop mode a broadcast invokes a prefix of the hook set it
\* was entered with, in order and without gaps, and its position is the
\* number of hooks it has invoked.  Two broadcasts over the same hook set
\* whose hooks did the same so far are at the same place: the second goes on
\* to the hook the first is in.
C18_VisitingOrder ==
    /\ \A i \in 1..Len(frames) :
          LET fr == frames[i] IN
          /\ Len(fr.log) <= Len(fr.entryFunctions)
          /\ Invoked(fr.log) = SubSeq(fr.entryFunctions, 1, Len(fr.log))
          /\ fr.idx = Len(fr.log) + 1
          /\ fr.pc = "inhook" => fr.idx <= Len(fr.entryFunctions)
          /\ fr.entryFunctions = m_Functions
    /\ \A i \in 1..Len(frames) : \A j \in (i + 1)..Len(frames) :
          frames[i].log = frames[j].log =>
              /\ frames[j].pc # "break"
              /\ frames[j].pc = "loop" => ~LoopEnds(frames[j])
              /\ frames[j].idx = frames[i].idx
    /\ Returned =>
          /\ Len(lastOp.log) <= Len(m_Functions)
          /\ Invoked(lastOp.log) = SubSeq(m_Functions, 1, Len(lastOp.log))

\* A broadcast run from the second hook of another stopped after two of the
\* three hooks, and the outer one is where the inner one was after its
\* first hook.
C18_Witness ==
    /\ Returned
    /\ m_StopMode = "ON_HANDLED"
    /\ m_Functions = <<3, 2, 1>>
    /\ Invoked(lastOp.log) = <<3, 2>>
    /\ Len(frames) = 1
    /\ frames[1].log = SubSeq(lastOp.log, 1, 1)

\* The reads of a log: no return value is read after a HANDLED was read, and
\* every successful call before that is read.
ReadsWhileContinue(log) ==
    \A i \in 1..Len(log) :
        /\ log[i].out \in {"CONTINUE", "HANDLED", "readfail"} =>
              Handlers(SubSeq(log, 1, i - 1)) = {}
        /\ log[i].out = "noread" => Handlers(SubSeq(log, 1, i - 1)) # {}

\* C19  A hook's return value is read only when its call succeeded and the
\* return code is still CONTINUE; the return code is HANDLED from the first
\* HANDLED read on, in every stop mode; a failed read fails the broadcast.
C19_ReturnCodeReading ==
    /\ \A i \in 1..Len(frames) :
          LET fr == frames[i] IN
          /\ ReadsWhileContinue(fr.log)
          /\ (fr.returnCode = "HANDLED") = (Handlers(fr.log) # {})
          /\ (\E k \in 1..Len(fr.log) : fr.log[k].out = "readfail") => ~fr.bSuccess
    /\ Returned =>
          /\ ReadsWhileContinue(lastOp.log)
          /\ (\E k \in 1..Len(lastOp.log) : lastOp.log[k].out = "readfail") =>
                lastOp.ret = "FAILED"
          /\ (lastOp.ret = "HANDLED") => Handlers(lastOp.log) # {}
          /\ (lastOp.ret = "NONE_HANDLED") => Handlers(lastOp.log) = {}

\* Under NEVER the first hook was HANDLED and the two after it were not
\* read; this broadcast ran in the second hook of one whose first read
\* failed.
C19_Witness ==
    /\ Returned
    /\ m_StopMode = "NEVER"
    /\ Outs(lastOp.log) = <<"HANDLED", "noread", "noread">>
    /\ lastOp.ret = "HANDLED"
    /\ Len(frames) = 1
    /\ Outs(frames[1].log) = <<"readfail">>
\* A value that validation has to reject: null, of an unknown type, of a type
\* that is not a funcdef, a null handle, a function of another signature.
Defective(v) ==
    \/ v.pValue = NULL
    \/ v.type # "funcdef"
    \/ v.target = NULL
    \/ v.target = BadFunction

\* C13  Hook and Unhook of a value that validation rejects change neither
\* the hook set nor a reference count; the validated function is null and
\* Hook returns false.
C13_ValidationRejection ==
    [][ (lastOp'.op \in {"Hook", "Unhook"} /\ Defective(lastOp'.log[1])) =>
            /\ m_Functions' = m_Functions
            /\ refCount' = refCount
            /\ lastOp'.arg = NULL
            /\ (lastOp'.op = "Hook" => lastOp'.ret = "false") ]_vars

\* Outside a broadcast, a handle to a function of another signature was
\* refused for a hook set of two.
C13_Witness ==
    /\ lastOp.op = "Hook"
    /\ lastOp.log[1] = [type |-> "funcdef", handle |-> TRUE, pValue |-> 1, target |-> BadFunction]
    /\ lastOp.ret = "false"
    /\ lastOp.arg = NULL
    /\ m_iInCallCount = 0
    /\ m_Functions = <<3, 1>>
\* The running calls that have no context of the caller.
OwningCalls == {i \in 1..Len(callStack) : callStack[i].in.pContext = NULL}

\* C12  A call of a function without a context of the caller requests one
\* context from the engine and returns it once, however the call ends; a
\* call with a context of the caller requests and returns none.  The
\* contexts out of the engine's pool are those of the running calls that
\* have none of the caller.
C12_ContextLifecycle ==
    /\ (lastCall.exit # "none" /\ lastCall.pFunction # NULL) =>
          IF lastCall.pContext = NULL
          THEN lastCall.acquired = 1 /\ lastCall.released = 1
          ELSE lastCall.acquired = 0 /\ lastCall.released = 0
    /\ \A i \in 1..Len(callStack) :
          callStack[i].acquired = IF i \in OwningCalls THEN 1 ELSE 0
    /\ pool = Cardinality(OwningCalls)

\* A call without a context has failed in setting its arguments, and the
\* context it requested is back in the pool.
C12_Witness ==
    /\ lastCall.exit = "arguments"
    /\ lastCall.pContext = NULL
    /\ lastCall.acquired = 1
    /\ lastCall.released = 1
    /\ callStack = <<>>
    /\ pool = 0

\* C20  A call with a null function returns false and has requested no
\* context, constructed no callable and executed nothing, with and without
\* a context of the caller.
C20_NullFunction ==
    (lastCall.exit # "none" /\ lastCall.pFunction = NULL) =>
        /\ lastCall.ret = FALSE
        /\ lastCall.exit = "null function"
        /\ lastCall.acquired = 0
        /\ lastCall.released = 0
        /\ ~lastCall.constructed
        /\ ~lastCall.executed

\* Script code run by a call without a context has called with a null
\* function and no context: only the running call's context is out.
C20_Witness ==
    /\ lastCall.exit = "null function"
    /\ lastCall.pFunction = NULL
    /\ lastCall.pContext = NULL
    /\ Len(callStack) = 1
    /\ callStack[1].in.pContext = NULL
    /\ pool = 1
\* The last call was one of a method without a receiver.
NullReceiver ==
    /\ lastCall.exit # "none"
    /\ lastCall.pFunction # NULL
    /\ lastCall.functor = "CASMethodFunctor"
    /\ lastCall.pThis = NULL

Requesters == {i \in 1..Len(frames) : frames[i].requested}

\* The contexts the hooks of a log were called on.
Contexts(log) == {log[i].ctx : i \in 1..Len(log)}

\* C22  VCall( flags, list ) on an empty hook set returns NONE_HANDLED and
\* leaves the pool and the in-call counter alone.  On a hook set with
\* entries it requests one context, every hook of the broadcast is called on
\* that context, and the return of the broadcast gives it back, whatever the
\* result; no other step requests or returns a context.  So the contexts
\* out of the pool are those of the running broadcasts that requested one.
C22_RequestedContext ==
    /\ [](/\ pool = Cardinality(Requesters)
          /\ \A i \in 1..Len(frames) :
                /\ Contexts(frames[i].log) \subseteq {frames[i].pContext}
                /\ frames[i].requested = (frames[i].pContext # CallerContext)
                /\ \A j \in Requesters : i # j => frames[i].pContext # frames[j].pContext
          /\ Returned => Cardinality(Contexts(lastOp.log)) <= 1)
    /\ [][ /\ (lastOp'.op = "VCallNoContext" /\ m_Functions = <<>>) =>
                /\ lastOp'.ret = "NONE_HANDLED"
                /\ pool' = pool
                /\ m_iInCallCount' = m_iInCallCount
                /\ frames' = frames
           /\ Entering =>
                /\ pool' = IF frames'[Len(frames')].requested THEN pool + 1 ELSE pool
                /\ m_Functions # <<>> \/ ~frames'[Len(frames')].requested
           /\ Returning =>
                /\ pool' = IF Top.requested THEN pool - 1 ELSE pool
                /\ lastOp'.ret \in {"FAILED", "HANDLED", "NONE_HANDLED"}
                /\ Contexts(lastOp'.log) \subseteq {Top.pContext}
           /\ (~Entering /\ ~Returning) => pool' = pool ]_vars

\* A broadcast without a context of the caller has failed after two hooks,
\* both called on the context it requested, and that context is back.
C22_Witness ==
    /\ Returned
    /\ lastOp.ret = "FAILED"
    /\ Len(lastOp.log) = 2
    /\ Contexts(lastOp.log) = {PoolContext(1)}
    /\ frames = <<>>
    /\ pool = 0
\* The tests a value fails, in the order they are made: 1 unknown type, 2 not
\* a funcdef, 3 null before or behind the handle, 4 another signature.
FailedChecks(v) ==
    {i \in 1..4 : CASE i = 1 -> v.type = "unknown"
                    [] i = 2 -> v.type # "funcdef"
                    [] i = 3 -> v.pValue = NULL \/ v.target = NULL
                    [] i = 4 -> v.target = BadFunction}

\* The test a false return names.
CheckOf(why) ==
    CASE why = "unknown type" -> 1
      [] why = "not a funcdef" -> 2
      [] why \in {"null object", "null handle"} -> 3
      [] why = "incompatible" -> 4
      [] OTHER -> 0

\* C23  ValidateHookFunction returns false at the first test the value
\* fails, in the order unknown type, not a funcdef, null (before and behind
\* the handle), signature, and then puts out null; it returns true, and puts
\* out the function, exactly when the value fails no test.
C23_ValidationOrder ==
    lastOp.op = "ValidateHookFunction" =>
        LET v == lastOp.log[1].v
            failed == FailedChecks(v)
        IN IF failed = {}
           THEN lastOp.ret = "true" /\ lastOp.arg = v.target /\ v.target \in Functions
           ELSE /\ lastOp.ret # "true"
                /\ lastOp.arg = NULL
                /\ CheckOf(lastOp.ret) \in failed
                /\ \A i \in failed : CheckOf(lastOp.ret) <= i

\* A null handle of an unknown type was refused for its type; it fails the
\* null test as well.
C23_Witness ==
    /\ lastOp.op = "ValidateHookFunction"
    /\ lastOp.log[1].v = [type |-> "unknown", handle |-> TRUE, pValue |-> 1, target |-> NULL]
    /\ FailedChecks(lastOp.log[1].v) = {1, 2, 3}
    /\ lastOp.ret = "unknown type"
    /\ lastOp.arg = NULL
\* C24  A broadcast with a null context returns FAILED: no hook is invoked,
\* the in-call counter and the running broadcasts are as before, and so are
\* the hook set and the reference counts.
C24_NullContext ==
    [][ (lastOp'.op = "VCall" /\ lastOp'.arg = NULL) =>
            /\ lastOp'.ret = "FAILED"
            /\ lastOp'.log = <<>>
            /\ m_iInCallCount' = m_iInCallCount
            /\ frames' = frames
            /\ m_Functions' = m_Functions
            /\ refCount' = refCount ]_vars

\* Outside a broadcast, with three hooks in the hook set, a broadcast with a
\* null context has failed and the counter is zero.
C24_Witness ==
    /\ lastOp = Op("VCall", NULL, "FAILED", <<>>)
    /\ m_Functions = <<3, 2, 1>>
    /\ m_iInCallCount = 0
    /\ frames = <<>>

\* Every mutating call is refused in this state: none would change the hook
\* set or a reference count, and AddFunction would return false.
MutationRejected ==
    /\ \A f \in Functions \cup {NULL} :
          /\ AddFunctionResult(m_Functions, refCount, m_iInCallCount, f)
                = [ret |-> FALSE, fns |-> m_Functions, rc |-> refCount]
          /\ RemoveFunctionResult(m_Functions, refCount, m_iInCallCount, f)
                = [fns |-> m_Functions, rc |-> refCount]
    /\ \A m \in Modules \cup {NULL} :
          RemoveFunctionsOfModuleResult(m_Functions, refCount, m_iInCallCount, m)
              = [fns |-> m_Functions, rc |-> refCount]
    /\ RemoveAllFunctionsResult(m_Functions, refCount, m_iInCallCount)
          = [fns |-> m_Functions, rc |-> refCount]

\* C25  The in-call counter is the number of running broadcasts of the
\* event, nested ones included: it is zero exactly when none runs, and as
\* long as one runs every mutating call is refused; with none running
\* AddFunction of a function is accepted.
C25_NestedCounter ==
    /\ m_iInCallCount = Len(frames)
    /\ (m_iInCallCount = 0) = (frames = <<>>)
    /\ \A i \in 1..Len(frames) : frames[i].entryCount = i - 1
    /\ frames # <<>> => MutationRejected
    /\ frames = <<>> =>
          \A f \in Functions : AddFunctionResult(m_Functions, refCount, m_iInCallCount, f).ret

\* A hook of a broadcast that a hook of another broadcast started has asked
\* to remove a function of the hook set: the counter is 2 and the function
\* is still there.
C25_Witness ==
    /\ Len(frames) = 2
    /\ m_iInCallCount = 2
    /\ frames[2].pc = "inhook"
    /\ lastOp.op = "RemoveFunction"
    /\ lastOp.log # <<>>
    /\ lastOp.arg \in Range(m_Functions)
    /\ Len(m_Functions) = 3
\* C26  A broadcast that has started returns, given that the calls of its
\* hooks return: the outermost one with the counter back at zero, a nested
\* one back into the hook that started it.  A broadcast leaves only at the
\* end of the hook set or at a stop of its stop mode, with a result and the
\* counter one lower; its position never goes back, and every call of a
\* hook, failed ones too, moves it on by one.
C26_Completion ==
    /\ (frames # <<>>) ~> (frames = <<>> /\ Returned /\ m_iInCallCount = 0)
    /\ (Len(frames) = MaxDepth) ~> (Len(frames) < MaxDepth /\ Returned)
    /\ [][ Returning =>
              /\ IF Top.pc = "break" THEN TRUE ELSE Top.pc = "loop" /\ LoopEnds(Top)
              /\ lastOp'.ret \in {"FAILED", "HANDLED", "NONE_HANDLED"}
              /\ m_iInCallCount' = m_iInCallCount - 1
              /\ Len(frames') = Len(frames) - 1 ]_vars
    /\ [][ \A i \in 1..Len(frames) :
              i <= Len(frames') =>
                  /\ frames'[i].idx >= frames[i].idx
                  /\ Len(frames'[i].log) >= Len(frames[i].log)
                  /\ frames'[i].log # frames[i].log =>
                        /\ frames'[i].idx = frames[i].idx + 1
                        /\ Len(frames'[i].log) = Len(frames[i].log) + 1 ]_vars

\* A broadcast over three hooks has returned FAILED after the call of its
\* second hook failed and the third was still called.
C26_Witness ==
    /\ Returned
    /\ frames = <<>>
    /\ m_iInCallCount = 0
    /\ m_StopMode = "NEVER"
    /\ lastOp.ret = "FAILED"
    /\ Outs(lastOp.log) = <<"CONTINUE", "callfail", "CONTINUE">>
====
